---- MODULE Spec2Model ----
(***************************************************************************)
(* Model of pvanalytics/quality/gaps.py: the three gap detectors           *)
(* stale_values_diff, stale_values_round and interpolation_diff, and the   *)
(* pandas / numpy operations they are written with.                        *)
(*                                                                         *)
(* Numbers are fixed-point: a value n stands for n * 10^-Scale, so that    *)
(* rounding to `decimals` places is rounding to a multiple of              *)
(* 10^(Scale - decimals).  A relative tolerance is the numerator of a      *)
(* fraction over RtolDen; an absolute tolerance is in value units.         *)
(* A float64 element is boxed: <<>> is NaN and <<n>> the number n.  A bool *)
(* Series holds plain BOOLEANs (the dtype has no NaN); the object Series   *)
(* that shift() makes of a bool Series holds boxed BOOLEANs.               *)
(***************************************************************************)
EXTENDS Integers, Sequences, FiniteSets, TLC

VARIABLES x, call, result

vars == <<x, call, result>>

\* ------------------------------------------------------------------ bounds

\* Longest input Series.
MaxLen == 4

\* Number of decimal places the fixed-point values carry.
Scale == 1

\* Denominator of the relative tolerances.
RtolDen == 2

\* Base of the decimal places of round().
Base == 10

\* ------------------------------------------------------------------ floats

NaN == <<>>

Some(v) == <<v>>

IsNaN(b) == Len(b) = 0

Val(b) == b[1]

Abs(n) == IF n < 0 THEN -n ELSE n

Max(a, b) == IF a < b THEN b ELSE a

RECURSIVE Pow(_, _)
Pow(b, e) == IF e <= 0 THEN 1 ELSE b * Pow(b, e - 1)

\* The finite numbers of the inputs: below, at and above a rounding tie.
Numbers == {-1, 0, 5, 6, 10}

InputValues == {NaN} \cup {Some(n) : n \in Numbers}

\* The labels an input carries: those of x[Start:], a slice of a Series
\* with the default RangeIndex (Start = 0: the Series itself).
IndexStarts == {0, 1}

\* From a negative window to one longer than every input.
Windows == -1 .. (MaxLen + 1)

Rtols == {0, 1}

Atols == {0, 1}

\* Rounding to all the places the values carry, or to one place fewer.
Decimals == {Scale - 1, Scale}

MkSeries(index, values) == [index |-> index, values |-> values]

\* The slices x[Start:] of the Series of length at most MaxLen on the
\* default RangeIndex.
AllSeries ==
    UNION { { MkSeries([i \in 1..n |-> s + i - 1], v) :
                v \in [1..n -> InputValues],
                s \in {t \in IndexStarts : t + n <= MaxLen} } :
            n \in 0..MaxLen }

\* ------------------------------------------------------------------ numpy

\* numpy.isclose for finite a, b: |a - b| <= atol + rtol * |b|.
isclose(a, b, rtol, atol) ==
    RtolDen * Abs(a - b) <= RtolDen * atol + rtol * Abs(b)

\* numpy.allclose(a=xs, b=b): every element is close to b.
allclose(xs, b, rtol, atol) ==
    \A k \in 1..Len(xs) : isclose(xs[k], b, rtol, atol)

\* Mutant of rint: ties rounded up instead of to even.
rint_half_up(n, m) ==
    LET q == n \div m
        r == n % m
    IN  IF 2 * r < m THEN q * m ELSE (q + 1) * m

\* numpy.round: rint(v * 10^decimals) / 10^decimals, ties to even.
rint(n, m) ==
    LET q == n \div m
        r == n % m
    IN  IF 2 * r < m THEN q * m
        ELSE IF 2 * r > m THEN (q + 1) * m
        ELSE IF q % 2 = 0 THEN q * m ELSE (q + 1) * m

round_value(b, decimals) ==
    IF IsNaN(b) THEN NaN
    ELSE IF decimals >= Scale THEN b
    ELSE Some(rint(Val(b), Pow(Base, Scale - decimals)))

\* ------------------------------------------------------------------ pandas

\* Series.round(decimals): elementwise, same index.
Round(s, decimals) ==
    MkSeries(s.index,
             [i \in 1..Len(s.values) |-> round_value(s.values[i], decimals)])

\* Mutant of Diff: the differences come back on a fresh RangeIndex instead
\* of on the index of s.
Diff_reset_index(s) ==
    MkSeries([i \in 1..Len(s.values) |-> i - 1],
             [i \in 1..Len(s.values) |->
                IF i = 1 THEN NaN
                ELSE IF IsNaN(s.values[i]) \/ IsNaN(s.values[i-1]) THEN NaN
                ELSE Some(Val(s.values[i]) - Val(s.values[i-1]))])

\* Mutant of Diff: the forward difference value[i+1] - value[i], one
\* position early, NaN at the last position.
Diff_forward(s) ==
    MkSeries(s.index,
             [i \in 1..Len(s.values) |->
                IF i = Len(s.values) THEN NaN
                ELSE IF IsNaN(s.values[i+1]) \/ IsNaN(s.values[i]) THEN NaN
                ELSE Some(Val(s.values[i+1]) - Val(s.values[i]))])

\* Series.diff(periods=1): value[i] - value[i-1]; NaN at the first position
\* and wherever an operand is NaN.  Same index.
Diff(s) ==
    MkSeries(s.index,
             [i \in 1..Len(s.values) |->
                IF i = 1 THEN NaN
                ELSE IF IsNaN(s.values[i]) \/ IsNaN(s.values[i-1]) THEN NaN
                ELSE Some(Val(s.values[i]) - Val(s.values[i-1]))])

\* Mutant of RollingRaises: the empty window is refused as well.
RollingRaises_zero(window) == window <= 0

\* Series.rolling(window): a negative window is refused when the Rolling
\* object is made.
RollingRaises(window) == window < 0

\* Mutant of Rolling: the truncated windows at the start count as full
\* (min_periods is the size of the window at hand).
Rolling_truncated(s, window) ==
    MkSeries(s.index,
             [i \in 1..Len(s.values) |->
                LET first == Max(1, i - window + 1)
                    obs   == {k \in first..i : ~IsNaN(s.values[k])}
                IN  IF Cardinality(obs) >= i - first + 1
                    THEN Some([k \in 1..(i - first + 1) |->
                                 Val(s.values[first + k - 1])])
                    ELSE NaN])

\* Series.rolling(window): min_periods defaults to window; the window ending
\* at i is values[max(first, i-window+1) .. i].  Where the window holds at
\* least min_periods non-NaN values the element is the boxed raw array that
\* apply(func, raw=True) hands to func, otherwise it is NaN.
Rolling(s, window) ==
    MkSeries(s.index,
             [i \in 1..Len(s.values) |->
                LET first == Max(1, i - window + 1)
                    obs   == {k \in first..i : ~IsNaN(s.values[k])}
                IN  IF Cardinality(obs) >= window
                    THEN Some([k \in 1..(i - first + 1) |->
                                 Val(s.values[first + k - 1])])
                    ELSE NaN])

\* The float that rolling().apply() stores for func's boolean result.
AsFloat(b) == IF b THEN 1 ELSE 0

\* Series.fillna(value).
Fillna(s, value) ==
    MkSeries(s.index,
             [i \in 1..Len(s.values) |->
                IF IsNaN(s.values[i]) THEN Some(value) ELSE s.values[i]])

\* Series.astype(bool) of a float Series without NaN.
AsTypeBool(s) ==
    MkSeries(s.index, [i \in 1..Len(s.values) |-> Val(s.values[i]) # 0])

\* Mutant of Shift: the sign of periods is taken the other way round.
Shift_reversed(s, periods) ==
    MkSeries(s.index,
             [i \in 1..Len(s.values) |->
                IF i + periods \in 1..Len(s.values)
                THEN Some(s.values[i + periods])
                ELSE NaN])

\* Series.shift(periods) of a bool Series: the value at i comes from
\* i - periods; positions whose source is outside the Series are NaN.
Shift(s, periods) ==
    MkSeries(s.index,
             [i \in 1..Len(s.values) |->
                IF i - periods \in 1..Len(s.values)
                THEN Some(s.values[i - periods])
                ELSE NaN])

\* flags | other, for a bool Series and an object Series of bools on the
\* same index.
Or(a, b) ==
    MkSeries(a.index,
             [i \in 1..Len(a.values) |-> a.values[i] \/ Val(b.values[i])])

\* ------------------------------------------------------------------ outcomes

\* A call returns a Series or raises; computed lists the Series operations
\* that were evaluated before the call ended.
Return(flags, computed) ==
    [kind |-> "ok", flags |-> flags, computed |-> computed]

Raise(msg, computed) ==
    [kind |-> "ValueError", msg |-> msg, computed |-> computed]

NoResult == [kind |-> "none"]

NoCall == [op |-> "none"]

\* ------------------------------------------------------------------ gaps.py

\* Mutant of _all_close_to_first: each value is compared with its
\* predecessor instead of with the first.
all_close_to_previous(xs, rtol, atol) ==
    \A k \in 2..Len(xs) : isclose(xs[k], xs[k-1], rtol, atol)

_all_close_to_first(xs, rtol, atol) == allclose(xs, xs[1], rtol, atol)

stale_values_diff(s, window, rtol, atol) ==
    IF window < 2
    THEN Raise(<<"window set to ", window, ", must be at least ", 2>>, <<>>)
    ELSE LET windows == Rolling(s, window)
             rolled  == MkSeries(windows.index,
                          [i \in 1..Len(s.values) |->
                             IF IsNaN(windows.values[i]) THEN NaN
                             ELSE Some(AsFloat(_all_close_to_first(
                                          Val(windows.values[i]), rtol, atol)))])
             flags   == AsTypeBool(Fillna(rolled, 0))
         IN  Return(flags, <<"rolling.apply", "fillna", "astype">>)

\* lambda xs: len(xs[xs == 0]) == window-1
all_zero(xs, window) ==
    Cardinality({k \in 1..Len(xs) : xs[k] = 0}) = window - 1

\* Mutant of spread: the loop stops one shift short of the run's start.
RECURSIVE spread_short(_, _, _)
spread_short(flags, endpoints, window) ==
    IF window > 1
    THEN LET w == window - 2
         IN  spread_short(Or(flags, Fillna(Shift(endpoints, -w), FALSE)),
                          endpoints, window - 1)
    ELSE flags

\* while window > 0: window = window - 1
\*     flags = flags | endpoints.shift(-window).fillna(False)
RECURSIVE spread(_, _, _)
spread(flags, endpoints, window) ==
    IF window > 0
    THEN LET w == window - 1
         IN  spread(Or(flags, Fillna(Shift(endpoints, -w), FALSE)),
                    endpoints, w)
    ELSE flags

stale_values_round(s, decimals, window) ==
    LET rounded_diff == Diff(Round(s, decimals))
    IN  IF RollingRaises(window - 1)
        THEN Raise(<<"window must be non-negative">>, <<"round", "diff">>)
        ELSE LET windows == Rolling(rounded_diff, window - 1)
                 rolled  == MkSeries(windows.index,
                              [i \in 1..Len(s.values) |->
                                 IF IsNaN(windows.values[i]) THEN NaN
                                 ELSE Some(AsFloat(all_zero(
                                              Val(windows.values[i]), window)))])
                 endpoints == AsTypeBool(Fillna(rolled, 0))
             IN  Return(spread(endpoints, endpoints, window),
                        <<"round", "diff", "rolling.apply", "fillna",
                          "astype", "shift">>)

\* Mutant of interpolation_diff: no check of its own, the delegate's
\* validation is relied on.
interpolation_diff_unchecked(s, window, rtol, atol) ==
    LET inner == stale_values_diff(Diff(s), window - 1, rtol, atol)
    IN  [inner EXCEPT !.computed = <<"diff">> \o @]

interpolation_diff(s, window, rtol, atol) ==
    IF window < 3
    THEN Raise(<<"window set to ", window, ", must be at least ", 3>>, <<>>)
    ELSE LET inner == stale_values_diff(Diff(s), window - 1, rtol, atol)
         IN  [inner EXCEPT !.computed = <<"diff">> \o @]

\* ------------------------------------------------------------------ machine

\* The functions are pure and hold no state across calls: a behaviour is a
\* caller's Series and one call on it, with its arguments and its outcome.

Init ==
    /\ x \in AllSeries
    /\ call = NoCall
    /\ result = NoResult

StaleValuesDiff ==
    /\ call.op = "none"
    /\ \E window \in Windows, rtol \in Rtols, atol \in Atols :
        /\ call' = [op |-> "stale_values_diff", window |-> window,
                    rtol |-> rtol, atol |-> atol]
        /\ result' = stale_values_diff(x, window, rtol, atol)
        /\ UNCHANGED x

StaleValuesRound ==
    /\ call.op = "none"
    /\ \E decimals \in Decimals, window \in Windows :
        /\ call' = [op |-> "stale_values_round", window |-> window,
                    decimals |-> decimals]
        /\ result' = stale_values_round(x, decimals, window)
        /\ UNCHANGED x

InterpolationDiff ==
    /\ call.op = "none"
    /\ \E window \in Windows, rtol \in Rtols, atol \in Atols :
        /\ call' = [op |-> "interpolation_diff", window |-> window,
                    rtol |-> rtol, atol |-> atol]
        /\ result' = interpolation_diff(x, window, rtol, atol)
        /\ UNCHANGED x

Next == StaleValuesDiff \/ StaleValuesRound \/ InterpolationDiff

Spec == Init /\ [][Next]_vars

\* ------------------------------------------------------------------ claims

N == Len(x.values)

V(p) == x.values[p]

Called(op) == call.op = op

Ok == result.kind = "ok"

Raised == result.kind = "ValueError"

Flag(p) == result.flags.values[p]

\* |v - a| <= atol + rtol * |a| on floats: false when either is NaN.
WithinTol(v, a, rtol, atol) ==
    /\ ~IsNaN(v)
    /\ ~IsNaN(a)
    /\ RtolDen * Abs(Val(v) - Val(a)) <= RtolDen * atol + rtol * Abs(Val(a))

\* d[j] = x[j] - x[j-1]; undefined (NaN) at the first position.
FirstDiff(j) ==
    IF j < 2 THEN NaN
    ELSE IF IsNaN(V(j)) \/ IsNaN(V(j-1)) THEN NaN
    ELSE Some(Val(V(j)) - Val(V(j-1)))

\* The input is N >= 1 copies of one number.
Constant == N >= 1 /\ \A p \in 1..N : ~IsNaN(V(p)) /\ V(p) = V(1)

\* The multiple of m nearest to n, the even multiple on a tie: one of the
\* two multiples of m that enclose n.
NearestMultiple(n, m) ==
    CHOOSE r \in {(n \div m) * m, (n \div m) * m + m} :
        /\ 2 * Abs(r - n) <= m
        /\ (2 * Abs(r - n) = m => (r \div m) % 2 = 0)

\* v rounded to call.decimals places.
Rounded(v) ==
    IF IsNaN(v) THEN NaN
    ELSE IF call.decimals >= Scale THEN v
    ELSE Some(NearestMultiple(Val(v), Pow(Base, Scale - call.decimals)))

\* The values of x, each rounded to call.decimals places.
RoundedValues == [p \in 1..N |-> Rounded(V(p))]

\* Two numbers are identical; NaN is identical to nothing.
Same(a, b) == ~IsNaN(a) /\ ~IsNaN(b) /\ a = b

\* Positions p and q of r lie in one run of identical values.
InRun(r, p, q) ==
    \A k \in (IF p < q THEN p ELSE q)..((IF p < q THEN q ELSE p) - 1) :
        Same(r[k], r[k + 1])

\* Length of the maximal run of r that holds position p.
RunLength(r, p) == Cardinality({q \in 1..Len(r) : InRun(r, p, q)})

\* C1: stale_values_diff with window >= 2 is True at a position iff a full
\* window ends there and every value of that window is within tolerance of
\* the window's own first element.  Positions are 1-based here: position p
\* is index p-1 of the source, so i >= window-1 reads p >= window.
C1_StaleDiffIffWindowCloseToItsFirst ==
    (Called("stale_values_diff") /\ call.window >= 2) =>
        /\ Ok
        /\ Len(result.flags.values) = N
        /\ \A p \in 1..N :
             Flag(p) <=>
               /\ p >= call.window
               /\ \A k \in (p - call.window + 1)..p :
                    WithinTol(V(k), V(p - call.window + 1),
                              call.rtol, call.atol)

\* A flagged window slid off its predecessor's anchor: the value at p is
\* flagged although it is not within tolerance of the first element of the
\* previous, also flagged, window; and another full window is not flagged.
C1_Witness ==
    /\ Called("stale_values_diff")
    /\ call.window >= 2
    /\ Ok
    /\ \E p \in (call.window + 1)..N :
         /\ Flag(p)
         /\ Flag(p - 1)
         /\ ~IsNaN(V(p - call.window))
         /\ ~WithinTol(V(p), V(p - call.window), call.rtol, call.atol)
    /\ \E q \in call.window..N : ~Flag(q)

\* C2: stale_values_round flags exactly the positions of the maximal runs of
\* at least `window` values identical after rounding to `decimals` places
\* (for the windows, window >= 1, for which a mask is returned).
C2_StaleRoundFlagsExactlyLongRuns ==
    (Called("stale_values_round") /\ call.window >= 1) =>
        /\ Ok
        /\ Len(result.flags.values) = N
        /\ LET r == RoundedValues
           IN  \A p \in 1..N : Flag(p) <=> RunLength(r, p) >= call.window

\* A run of exactly `window` values, identical only after rounding, between
\* unflagged neighbours.
C2_Witness ==
    /\ Called("stale_values_round")
    /\ call.window >= 2
    /\ Ok
    /\ N >= call.window + 2
    /\ \E p \in 2..(N - call.window) :
         /\ ~Flag(p - 1)
         /\ \A k \in p..(p + call.window - 1) : Flag(k)
         /\ ~Flag(p + call.window)
         /\ V(p) # V(p + 1)

C4_WindowValidation ==
    /\ (Called("stale_values_diff") /\ call.window < 2) =>
          /\ Raised
          /\ result.msg =
               <<"window set to ", call.window, ", must be at least ", 2>>
          /\ result.computed = <<>>
    /\ (Called("interpolation_diff") /\ call.window < 3) =>
          /\ Raised
          /\ result.msg =
               <<"window set to ", call.window, ", must be at least ", 3>>
          /\ result.computed = <<>>
    /\ (Called("interpolation_diff") /\ call.window >= 3) => Ok

\* interpolation_diff refused window 2, which its delegate would accept as
\* window - 1 = 1 only to refuse it under its own minimum.
C4_Witness ==
    /\ Called("interpolation_diff")
    /\ call.window = 2
    /\ N >= 1
    /\ Raised

\* C5: every returned mask has the length of the input and carries the
\* input's index labels in order.
C5_MaskKeepsLengthAndIndex ==
    (~Called("none") /\ Ok) =>
        /\ Len(result.flags.values) = N
        /\ Len(result.flags.index) = N
        /\ result.flags.index = x.index

\* interpolation_diff on a slice whose labels start at 1, with a flag set.
C5_Witness ==
    /\ Called("interpolation_diff")
    /\ Ok
    /\ N >= 3
    /\ x.index[1] = 1
    /\ \E p \in 1..N : Flag(p)

\* C6: for stale_values_diff (window >= 2) and interpolation_diff
\* (window >= 3) the first window-1 positions are False, and a Series
\* shorter than the window gives a mask, all False, never an error.
C6_InsufficientHistoryIsFalse ==
    (\/ Called("stale_values_diff") /\ call.window >= 2
     \/ Called("interpolation_diff") /\ call.window >= 3) =>
        /\ Ok
        /\ Len(result.flags.values) = N
        /\ \A p \in 1..N : p <= call.window - 1 => ~Flag(p)

\* A constant Series at least as long as the window: flagged from the
\* window-th position on, not before.
C6_Witness ==
    /\ Called("stale_values_diff")
    /\ call.window >= 3
    /\ Constant
    /\ N > call.window
    /\ Ok
    /\ ~Flag(call.window - 1)
    /\ Flag(call.window)

\* C7: on N identical values stale_values_diff (2 <= window <= N) flags
\* exactly the positions from the window-th on, and stale_values_round
\* (1 <= window <= N) flags every position.
C7_ConstantSeries ==
    /\ (Called("stale_values_diff") /\ Constant
          /\ 2 <= call.window /\ call.window <= N) =>
          /\ Ok
          /\ \A p \in 1..N : Flag(p) <=> p >= call.window
    /\ (Called("stale_values_round") /\ Constant
          /\ 1 <= call.window /\ call.window <= N) =>
          /\ Ok
          /\ \A p \in 1..N : Flag(p)

\* A constant Series exactly as long as the window, flagged from its first
\* position by stale_values_round.
C7_Witness ==
    /\ Called("stale_values_round")
    /\ Constant
    /\ call.window = N
    /\ N >= 3
    /\ Ok
    /\ Flag(1)

\* C8 as stated: stale_values_round never ends in an error, whatever the
\* window, and the mask is all False when window > len(x).
C8_Original ==
    Called("stale_values_round") =>
        /\ Ok
        /\ Len(result.flags.values) = N
        /\ (call.window > N => \A p \in 1..N : ~Flag(p))

\* C8, amended: stale_values_round returns a mask for every window >= 1, all
\* False when window > len(x); for window <= 0 the negative window - 1 given
\* to rolling() ends the call in a ValueError.
C8_StaleRoundWindowOutcome ==
    Called("stale_values_round") =>
        /\ call.window >= 1 =>
              /\ Ok
              /\ Len(result.flags.values) = N
              /\ (call.window > N => \A p \in 1..N : ~Flag(p))
        /\ call.window <= 0 => Raised

\* The degenerate window 1 on a Series of two values with distinct rounded
\* values: a mask comes back.
C8_Witness ==
    /\ Called("stale_values_round")
    /\ call.window = 1
    /\ N >= 2
    /\ ~Same(Rounded(V(1)), Rounded(V(2)))
    /\ Ok

\* Largest absolute first difference of x (NaN skipped), 0 when none.
MaxAbsDiff ==
    LET ds == {Abs(Val(FirstDiff(j))) : j \in {k \in 2..N : ~IsNaN(FirstDiff(k))}}
    IN  IF ds = {} THEN 0 ELSE CHOOSE m \in ds : \A d \in ds : d <= m

\* C9: interpolation_diff accepts a window of first differences when each
\* deviates from the window's first difference by at most
\* atol + rtol * max(abs(x.diff())).
C9_RtolRelativeToMaxAbsDiff ==
    (Called("interpolation_diff") /\ call.window >= 3 /\ Ok) =>
        \A p \in 1..N :
            Flag(p) <=>
              /\ p >= call.window
              /\ \A j \in (p - call.window + 2)..p :
                   /\ ~IsNaN(FirstDiff(j))
                   /\ ~IsNaN(FirstDiff(p - call.window + 2))
                   /\ RtolDen * Abs(Val(FirstDiff(j))
                                    - Val(FirstDiff(p - call.window + 2)))
                        <= RtolDen * call.atol + call.rtol * MaxAbsDiff

\* x holds values already rounded to call.decimals places.
AlreadyRounded == \A p \in 1..N : Rounded(V(p)) = V(p)

\* The mask of stale_values_diff(x, window, rtol=0, atol=0).
ExactDiffMask == stale_values_diff(x, call.window, 0, 0).flags.values

\* C10: on already rounded values and window >= 2 the rounding mask is the
\* exact-equality diff mask spread backward over each flagged window:
\* True at p iff the diff mask is True at some in-bounds q, p <= q <= p+w-1.
C10_RoundMaskIsDiffMaskSpreadBackward ==
    (Called("stale_values_round") /\ call.window >= 2 /\ AlreadyRounded) =>
        /\ Ok
        /\ Len(result.flags.values) = N
        /\ LET d == ExactDiffMask
           IN  \A p \in 1..N :
                 Flag(p) <=>
                   \E q \in p..(p + call.window - 1) : q <= N /\ d[q]

\* The diff mask is set at the last position only, the rounding mask on the
\* whole run that ends there, and the leading position stays unflagged.
C10_Witness ==
    /\ Called("stale_values_round")
    /\ call.window >= 2
    /\ AlreadyRounded
    /\ Ok
    /\ N > call.window
    /\ ExactDiffMask[N]
    /\ \A q \in 1..(N - 1) : ~ExactDiffMask[q]
    /\ Flag(N - 1)
    /\ ~Flag(1)

====
